---------------------------- MODULE Spec2Model ----------------------------
(***************************************************************************)
(* A model of main.py: the numeric normalizer to_int_from_text, the record *)
(* extractor scrape_countries_data, and the orchestration of main() over   *)
(* the sqlite store (init_db, save_batch, report).                         *)
(*                                                                         *)
(* Text is a sequence of one-character strings.  A Python value returned   *)
(* by to_int_from_text is a record [kind, val]:                            *)
(*   kind = "int"     an int whose value is val                            *)
(*   kind = "bigint"  an int of more than MaxIntDigits decimal digits; its *)
(*                    exact value (a rounded double) is not tracked        *)
(*   kind = "None"    None                                                 *)
(*   kind = "OverflowError" / "ValueError"  the call raised that exception *)
(***************************************************************************)
EXTENDS Integers, Sequences, FiniteSets, TLC

VARIABLES
    pc,          \* position of the modelled caller
    value_text,  \* argument of to_int_from_text (normalizer specification)
    result,      \* what to_int_from_text returned or raised
    soup,        \* parsed document (None when the fetch failed)
    limit,       \* argument limit of scrape_countries_data
    records,     \* what scrape_countries_data returned or raised
    conn,        \* main()'s local variable conn: "None" or "open" / "closed"
    table,       \* committed rows of the countries table, ordered by id
    txn,         \* the connection's uncommitted view of the table (rows)
    seq,         \* sqlite_sequence: largest id ever committed for the table
    reported,    \* what report() printed: the sample rows and the total
    handle,      \* state of the sqlite connection object: "none"/"open"/"closed"
    opened,      \* number of connections opened during this run
    closed,      \* number of close() calls on a connection during this run
    exc,         \* exception in flight in main(), "none" when there is none
    outcome,     \* how main() ended: "running", "returned", "raised"
    stages,      \* history: stages invoked during this run, in order
    tableAtStart,\* history: committed rows when this run started
    runs         \* number of runs of main() started so far

vars == << pc, value_text, result, soup, limit, records, conn, table, txn, seq,
           reported, handle, opened, closed, exc, outcome, stages, tableAtStart,
           runs >>

\* None where a text is expected; no text of the model equals it
None == << "None" >>

\* Python values produced by to_int_from_text
PyNone == [kind |-> "None", val |-> 0]
PyInt(n) == [kind |-> "int", val |-> n]
PyBigInt == [kind |-> "bigint", val |-> 0]
Raised(e) == [kind |-> e, val |-> 0]
Exceptions == {"OverflowError", "ValueError"}

(***************************************************************************)
(* Bounds of the model.                                                    *)
(***************************************************************************)
MaxLen == 5        \* longest text handed to to_int_from_text
MaxCards == 3      \* most top-level elements of a document handed to the extractor
MaxRuns == 3       \* runs of main() against the same database file

\* ints of more digits than this are kept as kind "bigint"
MaxIntDigits == MaxLen + 2

(***************************************************************************)
(* Characters.                                                             *)
(***************************************************************************)
Digits == {"0", "1", "2", "3", "4", "5", "6", "7", "8", "9"}

\* faulty variant: the digit 9 is missing from the allowed characters
Allowed_NoNine == (Digits \ {"9"}) \cup {".", "e", "E"}

\* allowed = "0123456789.eE"
Allowed == Digits \cup {".", "e", "E"}

\* str.strip() and get_text(strip=True) remove these
Whitespace == {" "}

\* the character U+00B2, SUPERSCRIPT TWO, as in "km2" written with an exponent
Sup2 == "^2"

\* characters for which str.isdigit() is True; the superscript two is one
\* of them although int() does not accept it
IsDigit == Digits \cup {Sup2}

\* the characters texts of the model are made of
Alphabet == {"1", "9", ".", "e", ",", " ", Sup2}

DigitVal(c) ==
    CASE c = "0" -> 0 [] c = "1" -> 1 [] c = "2" -> 2 [] c = "3" -> 3
      [] c = "4" -> 4 [] c = "5" -> 5 [] c = "6" -> 6 [] c = "7" -> 7
      [] c = "8" -> 8 [] c = "9" -> 9

Min(a, b) == IF a < b THEN a ELSE b
Max(a, b) == IF a < b THEN b ELSE a

RECURSIVE Pow10(_)
Pow10(n) == IF n = 0 THEN 1 ELSE 10 * Pow10(n - 1)

\* "".join(ch for ch in s if ch in set)
Filter(s, set) == SelectSeq(s, LAMBDA c : c \in set)

RECURSIVE LStrip(_)
LStrip(s) ==
    IF s # << >> /\ Head(s) \in Whitespace THEN LStrip(Tail(s)) ELSE s

RECURSIVE RStrip(_)
RStrip(s) ==
    IF s # << >> /\ s[Len(s)] \in Whitespace
    THEN RStrip(SubSeq(s, 1, Len(s) - 1))
    ELSE s

\* str.strip()
Strip(s) == RStrip(LStrip(s))

\* value of a sequence of decimal digit characters
RECURSIVE DigitsToNat(_)
DigitsToNat(ds) ==
    IF ds = << >> THEN 0
    ELSE 10 * DigitsToNat(SubSeq(ds, 1, Len(ds) - 1)) + DigitVal(ds[Len(ds)])

RECURSIVE StripZeros(_)
StripZeros(ds) ==
    IF ds # << >> /\ Head(ds) = "0" THEN StripZeros(Tail(ds)) ELSE ds


(***************************************************************************)
(* float(cleaned), for a string over "0123456789.eE" (no sign, no space    *)
(* and no letter other than e/E survives the filter).  Python accepts      *)
(*     digits+ [ "." digits* ] [ (e|E) digits+ ]  |  "." digits+ [ ... ]   *)
(* and raises ValueError for everything else.  The value is kept as its    *)
(* significant decimal digits sig (no leading zero) and the position pnt   *)
(* of the decimal point: the value is 0.sig * 10^pnt.                      *)
(***************************************************************************)
FirstE(s) ==
    IF \E i \in 1..Len(s) : s[i] \in {"e", "E"}
    THEN CHOOSE i \in 1..Len(s) :
            /\ s[i] \in {"e", "E"}
            /\ \A j \in 1..(i - 1) : s[j] \notin {"e", "E"}
    ELSE 0

Mantissa(s) == IF FirstE(s) = 0 THEN s ELSE SubSeq(s, 1, FirstE(s) - 1)
Exponent(s) == IF FirstE(s) = 0 THEN << >> ELSE SubSeq(s, FirstE(s) + 1, Len(s))

FirstDot(m) ==
    IF \E i \in 1..Len(m) : m[i] = "."
    THEN CHOOSE i \in 1..Len(m) : m[i] = "." /\ \A j \in 1..(i - 1) : m[j] # "."
    ELSE 0

IntPart(m) == IF FirstDot(m) = 0 THEN m ELSE SubSeq(m, 1, FirstDot(m) - 1)
FracPart(m) == IF FirstDot(m) = 0 THEN << >> ELSE SubSeq(m, FirstDot(m) + 1, Len(m))

IsFloatLiteral(s) ==
    LET m == Mantissa(s)
        x == Exponent(s)
    IN  /\ \A i \in 1..Len(m) : m[i] \in Digits \cup {"."}
        /\ Len(Filter(m, {"."})) <= 1
        /\ Filter(m, Digits) # << >>
        /\ FirstE(s) # 0 => (x # << >> /\ \A i \in 1..Len(x) : x[i] \in Digits)

\* the first 17 significant digits of 2^1024 - 2^970 = 1.7976931348623158079...e308,
\* the least value that float() rounds to infinity
DblOverflowDigits ==
    << "1", "7", "9", "7", "6", "9", "3", "1", "3", "4", "8", "6", "2", "3", "1",
       "5", "8" >>

\* a > b as decimal fractions 0.a and 0.b (missing digits are zeros)
RECURSIVE FracGreater(_, _)
FracGreater(a, b) ==
    IF a = << >> THEN FALSE
    ELSE IF b = << >> THEN StripZeros(a) # << >>
    ELSE IF DigitVal(Head(a)) # DigitVal(Head(b))
         THEN DigitVal(Head(a)) > DigitVal(Head(b))
         ELSE FracGreater(Tail(a), Tail(b))

\* float(s): exact for literals of at most 17 significant digits
PyFloat(s) ==
    IF ~IsFloatLiteral(s) THEN [kind |-> "ValueError", sig |-> << >>, pnt |-> 0]
    ELSE LET m == Mantissa(s)
             ds == IntPart(m) \o FracPart(m)
             sig == StripZeros(ds)
             pnt == Len(IntPart(m)) + DigitsToNat(Exponent(s))
                        - (Len(ds) - Len(sig))
         IN  IF sig = << >> THEN [kind |-> "finite", sig |-> << >>, pnt |-> 0]
             ELSE IF pnt > 309 \/ (pnt = 309 /\ FracGreater(sig, DblOverflowDigits))
                  THEN [kind |-> "inf", sig |-> << >>, pnt |-> 0]
                  ELSE [kind |-> "finite", sig |-> sig, pnt |-> pnt]

\* int(f): truncation toward zero; OverflowError for infinity
PyIntOfFloat(f) ==
    IF f.kind = "inf" THEN Raised("OverflowError")
    ELSE IF f.sig = << >> \/ f.pnt <= 0 THEN PyInt(0)
    ELSE IF f.pnt > MaxIntDigits THEN PyBigInt
    ELSE IF Len(f.sig) >= f.pnt THEN PyInt(DigitsToNat(SubSeq(f.sig, 1, f.pnt)))
    ELSE PyInt(DigitsToNat(f.sig) * Pow10(f.pnt - Len(f.sig)))

\* int(digits_only), digits_only non-empty and made of str.isdigit() characters:
\* ValueError when one of them is not a decimal digit
PyIntOfDigits(ds) ==
    IF \E i \in 1..Len(ds) : ds[i] \notin Digits THEN Raised("ValueError")
    ELSE IF Len(StripZeros(ds)) > MaxIntDigits THEN PyBigInt
    ELSE PyInt(DigitsToNat(ds))

\* cleaned = "".join(ch for ch in text if ch in allowed)
Cleaned(text) == Filter(text, Allowed)

\* the except ValueError branch of to_int_from_text
Fallback(text) ==
    LET digits_only == Filter(text, IsDigit)
    IN  IF digits_only # << >> THEN PyIntOfDigits(digits_only) ELSE PyNone

to_int_from_text(v) ==
    IF v = None THEN PyNone
    ELSE LET text == Strip(v)
             cleaned == Cleaned(text)
         IN  IF cleaned = << >> THEN PyNone
             ELSE IF PyFloat(cleaned).kind = "ValueError" THEN Fallback(text)
             ELSE PyIntOfFloat(PyFloat(cleaned))


(***************************************************************************)
(* Documents.  A parsed document is the sequence, in document order, of    *)
(* its div.country elements and of its h3.country-name elements that lie   *)
(* outside every div.country.  An element is a record                      *)
(*   tag         "div" or "h3"                                             *)
(*   text        the element's own text (get_text()) when it is an h3      *)
(*   name, capital, population, area                                       *)
(*               the text of the first descendant of class .country-name,  *)
(*               .country-capital, .country-population, .country-area, or  *)
(*               None when the element has no such descendant              *)
(***************************************************************************)
Card(tag, text, name, capital, population, area) ==
    [tag |-> tag, text |-> text, name |-> name, capital |-> capital,
     population |-> population, area |-> area]

NoneSoup == [isNone |-> TRUE, body |-> << >>]
Soup(body) == [isNone |-> FALSE, body |-> body]

\* tag.get_text(strip=True) of an element holding one text node
GetTextStripped(t) == Strip(t)

\* soup.select("div.country")
SelectDivCountry(body) == SelectSeq(body, LAMBDA el : el.tag = "div")

\* soup.select("h3.country-name")
SelectH3CountryName(body) == SelectSeq(body, LAMBDA el : el.tag = "h3")

\* faulty variant: no fallback to the h3 selector
CountryCards_NoFallback(body) == SelectDivCountry(body)

\* country_cards: the primary selector, the fallback when it matches nothing
CountryCards(body) ==
    IF SelectDivCountry(body) # << >>
    THEN SelectDivCountry(body)
    ELSE SelectH3CountryName(body)

\* faulty variant: the slice keeps one candidate too many
SliceTo_OneMore(cards, lim) ==
    IF lim >= 0
    THEN SubSeq(cards, 1, Min(lim + 1, Len(cards)))
    ELSE SubSeq(cards, 1, Max(0, Len(cards) + lim))

\* Python's cards[:limit]; a negative limit counts from the end
SliceTo(cards, lim) ==
    IF lim >= 0
    THEN SubSeq(cards, 1, Min(lim, Len(cards)))
    ELSE SubSeq(cards, 1, Max(0, Len(cards) + lim))

\* name, before "name or ''": None is the empty text here
CardName(card) ==
    IF card.name # None /\ GetTextStripped(card.name) # << >>
    THEN GetTextStripped(card.name)
    ELSE IF card.tag = "h3" THEN GetTextStripped(card.text) ELSE << >>

CardCapital(card) ==
    IF card.capital # None /\ GetTextStripped(card.capital) # << >>
    THEN GetTextStripped(card.capital)
    ELSE None

\* population and area: the raw text goes to to_int_from_text
CardNumber(field) ==
    IF field # None /\ GetTextStripped(field) # << >>
    THEN to_int_from_text(field)
    ELSE PyNone

\* the dict appended for one card; a field of kind OverflowError or
\* ValueError means that building the record raised
CardRecord(card) ==
    [country_name |-> CardName(card),
     capital |-> CardCapital(card),
     population |-> CardNumber(card.population),
     area |-> CardNumber(card.area)]

Returned(data) == [raised |-> "none", data |-> data]
Raises(e) == [raised |-> e, data |-> << >>]

\* the for loop: data so far, cards still to visit
RECURSIVE ScrapeLoop(_, _)
ScrapeLoop(data, cards) ==
    IF cards = << >> THEN Returned(data)
    ELSE LET r == CardRecord(Head(cards))
         IN  IF r.population.kind \in Exceptions THEN Raises(r.population.kind)
             ELSE IF r.area.kind \in Exceptions THEN Raises(r.area.kind)
             ELSE ScrapeLoop(Append(data, r), Tail(cards))

scrape_countries_data(sp, lim) ==
    IF sp.isNone THEN Returned(<< >>)
    ELSE ScrapeLoop(<< >>, SliceTo(CountryCards(sp.body), lim))


(***************************************************************************)
(* The store: the countries table of countries.db.  A row is a record      *)
(* [id, country_name, capital, population, area]; id is INTEGER PRIMARY    *)
(* KEY AUTOINCREMENT, so a new row gets an id larger than every id the     *)
(* table ever held (sqlite_sequence, which DELETE does not reset).         *)
(***************************************************************************)
Row(id, r) ==
    [id |-> id, country_name |-> r.country_name, capital |-> r.capital,
     population |-> r.population, area |-> r.area]

RowRecord(row) ==
    [country_name |-> row.country_name, capital |-> row.capital,
     population |-> row.population, area |-> row.area]

\* faulty variant: the table is not cleared
DeleteAll_Keep(tbl) == tbl

\* DELETE FROM countries
DeleteAll(tbl) == << >>

\* executemany(INSERT ...): rows appended in order, ids from sqlite_sequence
InsertMany(tbl, s, recs) ==
    tbl \o [i \in 1..Len(recs) |-> Row(s + i, recs[i])]

\* SELECT ... ORDER BY id LIMIT 5
FirstFive(tbl) == SubSeq(tbl, 1, Min(5, Len(tbl)))

\* SELECT SUM(population): NULL values are skipped, NULL when there is none
RECURSIVE SumPopulation(_)
SumPopulation(tbl) ==
    IF tbl = << >> THEN PyNone
    ELSE LET rest == SumPopulation(SubSeq(tbl, 1, Len(tbl) - 1))
             p == tbl[Len(tbl)].population
         IN  IF p.kind = "None" THEN rest
             ELSE IF rest.kind = "None" THEN p
             ELSE IF p.kind = "bigint" \/ rest.kind = "bigint" THEN PyBigInt
             ELSE PyInt(rest.val + p.val)

NoReport == [rows |-> << >>, total |-> PyNone]

\* records = scrape_countries_data(soup, limit=20)
RecordLimit == 20

\* faulty variant: the handler catches ValueError only
IsCaught_ValueErrorOnly(e) == e = "ValueError"

\* except Exception: everything main() can meet derives from Exception
IsCaught(e) == e \in {"sqlite3.Error", "OverflowError", "ValueError"}

\* if soup is None: ... return
HaltAfterFetch(sp) == sp.isNone

\* faulty variant: an empty extraction does not stop the run
HaltAfterScrape_Never(recs) == FALSE

\* if not records: ... return
HaltAfterScrape(recs) == recs = << >>

(***************************************************************************)
(* Inputs of the model.                                                    *)
(***************************************************************************)
RECURSIVE SeqsUpTo(_, _)
SeqsUpTo(S, n) ==
    IF n = 0 THEN {<< >>}
    ELSE LET shorter == SeqsUpTo(S, n - 1)
         IN  shorter \cup {Append(q, x) : q \in shorter, x \in S}

Texts == SeqsUpTo(Alphabet, MaxLen)

CardFull ==
    Card("div", << >>, <<" ", "A">>, <<"B", " ">>, <<"1", ",", "9">>,
         <<"9", "1", " ", "k", "m", Sup2>>)
CardOther ==
    Card("div", << >>, <<"D">>, None, <<"9">>, <<"1", ".", "9", "e", "1">>)
CardAbsent == Card("div", << >>, None, None, None, None)
CardBlank == Card("div", << >>, <<" ">>, <<" ">>, <<" ">>, <<"N", "/", "A">>)
CardOverflow ==
    Card("div", << >>, <<"F">>, <<"G">>, <<"1", "e", "9", "9", "9">>, <<"1">>)
CardH3 == Card("h3", <<"C", " ">>, None, None, None, None)
CardH3Empty == Card("h3", << >>, None, None, None, None)

Cards == {CardFull, CardOther, CardAbsent, CardBlank, CardOverflow, CardH3,
          CardH3Empty}

\* documents handed to scrape_countries_data directly
ScrapeSoups == {NoneSoup} \cup {Soup(b) : b \in SeqsUpTo(Cards, MaxCards)}
Limits == (0 - MaxCards - 1)..(MaxCards + 1)

\* pages main() may receive; the last one holds more blocks than the limit
MainSoups ==
    {Soup(b) : b \in
        {<< >>, <<CardH3>>, <<CardFull, CardAbsent>>, <<CardOther>>,
         <<CardOverflow>>, <<CardH3, CardOther, CardH3Empty>>,
         [i \in 1..(RecordLimit + 1) |-> IF i = 2 THEN CardOther ELSE CardFull]}}

(***************************************************************************)
(* Initial states.                                                         *)
(***************************************************************************)
NormIdle == value_text = None /\ result = PyNone

ScrapeIdle == soup = NoneSoup /\ limit = RecordLimit /\ records = Returned(<< >>)

MainIdle ==
    /\ conn = "None"
    /\ table = << >>
    /\ txn = << >>
    /\ seq = 0
    /\ reported = NoReport
    /\ handle = "none"
    /\ opened = 0
    /\ closed = 0
    /\ exc = "none"
    /\ outcome = "running"
    /\ stages = << >>
    /\ tableAtStart = << >>
    /\ runs = 1

normVars == << value_text, result >>
dbVars == << conn, table, txn, seq, handle, opened, closed >>

\* main() is about to run for the first time; countries.db does not exist yet
Init == pc = "init_db" /\ NormIdle /\ ScrapeIdle /\ MainIdle

(***************************************************************************)
(* main(): one action per stage.                                           *)
(***************************************************************************)

\* init_db succeeds: table created if missing, emptied, committed; conn returned
InitDbOk ==
    /\ pc = "init_db"
    /\ stages' = Append(stages, "init_db")
    /\ opened' = opened + 1
    /\ handle' = "open"
    /\ conn' = "open"
    /\ table' = DeleteAll(table)
    /\ txn' = DeleteAll(table)
    /\ pc' = "fetch"
    /\ UNCHANGED << normVars, soup, limit, records, seq, reported, closed, exc,
                    outcome, tableAtStart, runs >>

\* sqlite3.connect raises: no connection exists, main's conn stays None
InitDbConnectError ==
    /\ pc = "init_db"
    /\ stages' = Append(stages, "init_db")
    /\ exc' = "sqlite3.Error"
    /\ pc' = "except"
    /\ UNCHANGED << normVars, soup, limit, records, dbVars, reported, outcome,
                    tableAtStart, runs >>

\* CREATE TABLE, DELETE or commit raises: init_db closes the connection
\* (dropping what was not committed) and re-raises; main's conn stays None
InitDbError ==
    /\ pc = "init_db"
    /\ stages' = Append(stages, "init_db")
    /\ opened' = opened + 1
    /\ closed' = closed + 1
    /\ handle' = "closed"
    /\ txn' = table
    /\ exc' = "sqlite3.Error"
    /\ pc' = "except"
    /\ UNCHANGED << normVars, soup, limit, records, conn, table, seq, reported,
                    outcome, tableAtStart, runs >>

\* fetch_and_parse: a document, or None after a requests.RequestException
MainFetch ==
    /\ pc = "fetch"
    /\ stages' = Append(stages, "fetch")
    /\ \E sp \in MainSoups \cup {NoneSoup} :
          /\ soup' = sp
          /\ pc' = IF HaltAfterFetch(sp) THEN "finally" ELSE "scrape"
    /\ UNCHANGED << normVars, limit, records, dbVars, reported, exc, outcome,
                    tableAtStart, runs >>


\* scrape_countries_data(soup, limit=20), then "if not records: return";
\* an exception of to_int_from_text leaves the function and the try block
MainScrape ==
    /\ pc = "scrape"
    /\ stages' = Append(stages, "extract")
    /\ records' = scrape_countries_data(soup, RecordLimit)
    /\ exc' = records'.raised
    /\ pc' = IF records'.raised # "none" THEN "except"
             ELSE IF HaltAfterScrape(records'.data) THEN "finally"
             ELSE "save"
    /\ UNCHANGED << normVars, soup, limit, dbVars, reported, outcome,
                    tableAtStart, runs >>

\* save_batch succeeds: every record inserted, then committed
SaveBatchOk ==
    /\ pc = "save"
    /\ stages' = Append(stages, "write")
    /\ table' = InsertMany(txn, seq, records.data)
    /\ txn' = table'
    /\ seq' = seq + Len(records.data)
    /\ pc' = "report"
    /\ UNCHANGED << normVars, soup, limit, records, conn, reported, handle,
                    opened, closed, exc, outcome, tableAtStart, runs >>

\* executemany or commit raises: some rows may sit in the open transaction,
\* nothing is committed; save_batch prints and re-raises
SaveBatchError ==
    /\ pc = "save"
    /\ stages' = Append(stages, "write")
    /\ \E k \in 0..Len(records.data) :
          txn' = InsertMany(txn, seq, SubSeq(records.data, 1, k))
    /\ \E e \in {"sqlite3.Error", "OverflowError"} : exc' = e
    /\ pc' = "except"
    /\ UNCHANGED << normVars, soup, limit, records, conn, table, seq, reported,
                    handle, opened, closed, outcome, tableAtStart, runs >>

\* report succeeds: prints the first five rows and the total population
ReportOk ==
    /\ pc = "report"
    /\ stages' = Append(stages, "report")
    /\ reported' = [rows |-> FirstFive(txn), total |-> SumPopulation(txn)]
    /\ pc' = "finally"
    /\ UNCHANGED << normVars, soup, limit, records, dbVars, exc, outcome,
                    tableAtStart, runs >>

\* a query or a print of report raises; report prints and re-raises
ReportError ==
    /\ pc = "report"
    /\ stages' = Append(stages, "report")
    /\ exc' = "sqlite3.Error"
    /\ pc' = "except"
    /\ UNCHANGED << normVars, soup, limit, records, dbVars, reported, outcome,
                    tableAtStart, runs >>

\* except Exception: pass
MainExcept ==
    /\ pc = "except"
    /\ exc' = IF IsCaught(exc) THEN "none" ELSE exc
    /\ pc' = "finally"
    /\ UNCHANGED << normVars, soup, limit, records, dbVars, reported, outcome,
                    stages, tableAtStart, runs >>

\* faulty variant: the finally block does not close the connection
MainFinally_NoClose ==
    /\ pc = "finally"
    /\ outcome' = IF exc = "none" THEN "returned" ELSE "raised"
    /\ pc' = "done"
    /\ UNCHANGED << normVars, soup, limit, records, dbVars, reported, exc,
                    stages, tableAtStart, runs >>

\* finally: if conn: conn.close(); closing drops an uncommitted transaction.
\* main() then returns, or the exception still in flight leaves it
MainFinally ==
    /\ pc = "finally"
    /\ IF conn # "None"
       THEN /\ handle' = "closed"
            /\ closed' = closed + 1
            /\ txn' = table
       ELSE UNCHANGED << handle, closed, txn >>
    /\ outcome' = IF exc = "none" THEN "returned" ELSE "raised"
    /\ pc' = "done"
    /\ UNCHANGED << normVars, soup, limit, records, conn, table, seq, reported,
                    opened, exc, stages, tableAtStart, runs >>

\* the program is started again on the same countries.db
NextRun ==
    /\ pc = "done"
    /\ runs < MaxRuns
    /\ runs' = runs + 1
    /\ tableAtStart' = table
    /\ conn' = "None"
    /\ handle' = "none"
    /\ opened' = 0
    /\ closed' = 0
    /\ exc' = "none"
    /\ outcome' = "running"
    /\ stages' = << >>
    /\ reported' = NoReport
    /\ soup' = NoneSoup
    /\ records' = Returned(<< >>)
    /\ pc' = "init_db"
    /\ UNCHANGED << normVars, limit, table, txn, seq >>

Next ==
    \/ InitDbOk
    \/ InitDbConnectError
    \/ InitDbError
    \/ MainFetch
    \/ MainScrape
    \/ SaveBatchOk
    \/ SaveBatchError
    \/ ReportOk
    \/ ReportError
    \/ MainExcept
    \/ MainFinally
    \/ NextRun

Spec == Init /\ [][Next]_vars

(***************************************************************************)
(* to_int_from_text on its own: one call on an arbitrary short text.       *)
(***************************************************************************)
InitNorm ==
    /\ pc = "norm_call"
    /\ value_text \in Texts \cup {None}
    /\ result = PyNone
    /\ ScrapeIdle
    /\ MainIdle

CallToInt ==
    /\ pc = "norm_call"
    /\ result' = to_int_from_text(value_text)
    /\ pc' = "norm_done"
    /\ UNCHANGED << value_text, soup, limit, records, dbVars, reported, exc,
                    outcome, stages, tableAtStart, runs >>

NextNorm == CallToInt

SpecNorm == InitNorm /\ [][NextNorm]_vars

(***************************************************************************)
(* scrape_countries_data on its own: one call on an arbitrary small        *)
(* document with an arbitrary limit.                                       *)
(***************************************************************************)
InitScrape ==
    /\ pc = "scrape_call"
    /\ soup \in ScrapeSoups
    /\ limit \in Limits
    /\ records = Returned(<< >>)
    /\ NormIdle
    /\ MainIdle

CallScrape ==
    /\ pc = "scrape_call"
    /\ records' = scrape_countries_data(soup, limit)
    /\ pc' = "scrape_done"
    /\ UNCHANGED << normVars, soup, limit, dbVars, reported, exc, outcome,
                    stages, tableAtStart, runs >>

NextScrape == CallScrape

SpecScrape == InitScrape /\ [][NextScrape]_vars


(***************************************************************************)
(* Properties.                                                             *)
(***************************************************************************)
Range(q) == {q[i] : i \in 1..Len(q)}

IsPrefix(p, q) == Len(p) <= Len(q) /\ \A i \in 1..Len(p) : p[i] = q[i]

StageOrder == << "init_db", "fetch", "extract", "write", "report" >>

\* this run stopped because the fetch gave no document
HaltedOnFetch == stages = << "init_db", "fetch" >> /\ soup.isNone

\* this run stopped because the extraction gave no record
HaltedOnEmpty ==
    /\ stages = << "init_db", "fetch", "extract" >>
    /\ records.raised = "none"
    /\ records.data = << >>

Ids(tbl) == {tbl[i].id : i \in 1..Len(tbl)}

\* C1: a run of main() that halts early, after a failed fetch or an empty
\* extraction, leaves in the table exactly the rows it held before the run.
C1_NoStoreMutationOnHalt ==
    (pc = "done" /\ (HaltedOnFetch \/ HaltedOnEmpty)) => table = tableAtStart

\* C2: on every exit path of main() a connection that was opened is closed
\* before the run ends, and close() is called exactly once on it; no run
\* ends with an open connection.
C2_HandleClosedExactlyOnce ==
    /\ closed <= opened
    /\ opened <= 1
    /\ pc = "done" => (closed = opened /\ handle # "open")

\* a run that opened the store and ended through an exception of save_batch
C2_Witness ==
    /\ pc = "done"
    /\ stages = << "init_db", "fetch", "extract", "write" >>
    /\ opened = 1
    /\ closed = 1
    /\ handle = "closed"

\* C3: to_int_from_text never raises: every input without an integer value
\* gives None.
C3_NeverRaises == pc = "norm_done" => result.kind \notin Exceptions

\* C4 as stated: for every integer limit, negative ones included, the
\* sequence scrape_countries_data returns has at most limit elements.
C4_AtMostLimit ==
    (pc = "scrape_done" /\ records.raised = "none")
        => Len(records.data) <= limit

\* C4 amended: for every limit >= 0 the sequence scrape_countries_data
\* returns has at most limit elements, however many candidates there are.
C4_AtMostLimitNonNegative ==
    (pc = "scrape_done" /\ records.raised = "none" /\ limit >= 0)
        => Len(records.data) <= limit

\* more candidates than the limit, and the call returned
C4_Witness ==
    /\ pc = "scrape_done"
    /\ limit > 0
    /\ ~soup.isNone
    /\ Len(soup.body) > limit
    /\ records.raised = "none"
    /\ Len(records.data) = limit

\* the document has no element either selector matches
NoCandidates(sp) ==
    sp.isNone \/ \A i \in 1..Len(sp.body) : sp.body[i].tag \notin {"div", "h3"}

ReturnedNothing == records.raised = "none" /\ records.data = << >>

\* C5 as stated: for every limit, scrape_countries_data returns zero
\* records exactly when neither selector matches an element.
C5_EmptyIffNoCandidates ==
    pc = "scrape_done" => (ReturnedNothing <=> NoCandidates(soup))

\* C5 amended: for every limit >= 1, scrape_countries_data returns zero
\* records exactly when neither selector matches an element.
C5_EmptyIffNoCandidatesPositive ==
    (pc = "scrape_done" /\ limit >= 1)
        => (ReturnedNothing <=> NoCandidates(soup))

\* only the fallback selector matches, and records come back
C5_Witness ==
    /\ pc = "scrape_done"
    /\ limit >= 1
    /\ ~soup.isNone
    /\ soup.body # << >>
    /\ \A i \in 1..Len(soup.body) : soup.body[i].tag = "h3"
    /\ records.raised = "none"
    /\ records.data # << >>

\* the integer the decimal digits of a text spell, in order
DigitsAlone(t) == PyInt(DigitsToNat(Filter(t, Digits)))

\* C6 as stated: a text that starts with a digit and holds digits mixed with
\* or followed by any other characters ('.', 'e' and 'E' among them) gives
\* the integer its digits spell.
C6_DigitsAlone ==
    (/\ pc = "norm_done"
     /\ value_text # None
     /\ value_text # << >>
     /\ Head(value_text) \in Digits)
        => result = DigitsAlone(value_text)

\* C6 amended: a text with at least one decimal digit and without '.', 'e'
\* and 'E' gives the integer its digits spell.
C6_DigitsAloneWithoutDotE ==
    (/\ pc = "norm_done"
     /\ value_text # None
     /\ Filter(value_text, Digits) # << >>
     /\ Filter(value_text, {".", "e", "E"}) = << >>)
        => result = DigitsAlone(value_text)

\* "1,9 " followed by a superscript two gave 19
C6_Witness ==
    /\ pc = "norm_done"
    /\ value_text = << "1", ",", "9", " ", Sup2 >>
    /\ result = PyInt(19)

\* C7: the stages of a run occur in the order init_db, fetch, extract, write,
\* report; save_batch runs only after a fetch that returned a document and
\* an extraction that returned a record; after a failed fetch or an empty
\* extraction neither save_batch nor report runs.
C7_StageOrder ==
    /\ IsPrefix(stages, StageOrder)
    /\ "write" \in Range(stages)
          => (~soup.isNone /\ records.raised = "none" /\ records.data # << >>)
    /\ (\/ ("fetch" \in Range(stages) /\ soup.isNone)
        \/ ("extract" \in Range(stages) /\ records.data = << >>))
          => ("write" \notin Range(stages) /\ "report" \notin Range(stages))

\* a run went through all five stages
C7_Witness == pc = "done" /\ stages = StageOrder /\ outcome = "returned"

\* save_batch returned in this run
WriteCompleted == pc = "report" \/ "report" \in Range(stages)

\* C8: once the write stage of a run is complete the table holds exactly the
\* records extracted in that run, in extraction order with strictly
\* increasing ids, and none of the rows it held before the run.
C8_FullRefresh ==
    WriteCompleted =>
        /\ Len(table) = Len(records.data)
        /\ \A i \in 1..Len(table) : RowRecord(table[i]) = records.data[i]
        /\ \A i \in 1..Len(table) : \A j \in 1..Len(table) :
              i < j => table[i].id < table[j].id
        /\ Ids(table) \cap Ids(tableAtStart) = {}

\* a later run over a table that held rows has completed its write
C8_Witness ==
    /\ WriteCompleted
    /\ runs > 1
    /\ tableAtStart # << >>
    /\ Len(table) > 1

\* C9: an exception of init_db, save_batch or report never leaves main():
\* the run ends by returning, with the connection closed, exactly as a
\* successful run ends.
C9_ExceptionsSwallowed ==
    pc = "done" => (outcome = "returned" /\ exc = "none" /\ handle # "open")

\* the last stage of the run raised
StageRaised(st) == stages # << >> /\ stages[Len(stages)] = st /\ pc = "done"

C9_Witness ==
    /\ outcome = "returned"
    /\ \/ StageRaised("init_db")
       \/ StageRaised("write")
       \/ (StageRaised("report") /\ reported = NoReport)

\* the record of a candidate none of whose four sub-elements exists
EmptyRecord ==
    [country_name |-> << >>, capital |-> None, population |-> PyNone,
     area |-> PyNone]

AllAbsent(card) ==
    /\ card.name = None
    /\ card.capital = None
    /\ card.population = None
    /\ card.area = None

\* C10: for a limit >= 0, scrape_countries_data produces exactly one record
\* for each of the first limit candidates, at the candidate's position, and
\* a candidate whose four sub-elements are all absent gives the record
\* ("", None, None, None).
C10_OneRecordPerCandidate ==
    (pc = "scrape_done" /\ limit >= 0 /\ ~soup.isNone) =>
        LET cands == CountryCards(soup.body)
        IN  /\ records.raised = "none"
            /\ Len(records.data) = Min(limit, Len(cands))
            /\ \A i \in 1..Len(records.data) :
                  /\ records.data[i] = CardRecord(cands[i])
                  /\ AllAbsent(cands[i]) => records.data[i] = EmptyRecord

=============================================================================
